---- MODULE Spec2Model ----
(***************************************************************************)
(* Model of libindy/src/commands/sss.rs: the secret-sharing command        *)
(* executor (SSSCommandExecutor).  The four commands are modelled as the   *)
(* handlers that `execute` dispatches to.  Text (JSON strings) is a        *)
(* sequence of tokens, JSON values are tagged pairs, the bytes of a key    *)
(* are a sequence of numbers 0..255.                                       *)
(***************************************************************************)
EXTENDS Integers, Sequences, FiniteSets, TLC

VARIABLES
    wallet,   \* wallet[h]: the key/value entries of the wallet behind handle h
    keys,     \* keys[h]: the signing keys of wallet h, by verkey
    last,     \* the command `execute` ran last, what it did and what its callback got
    origin,   \* origin[h][verkey]: the arguments of the split whose write stands, if any
    pend      \* per caller: the wallet write a split in progress is about to issue

vars == <<wallet, keys, last, origin, pend>>

(***************************************************************************)
(* Bounds of the model.                                                    *)
(***************************************************************************)
MaxN == 2          \* the largest total number of shards asked for

(***************************************************************************)
(* Constants of the source.                                                *)
(***************************************************************************)
SSS_WALLET_KEY_PREFIX == "sss"
SSS_MSG_NAME_IN_SHARD == "msg"
SSS_VERKEY_NAME_IN_SHARD == "verkey"
SSS_SEED_NAME_IN_SHARD == "seed"

(***************************************************************************)
(* Result<T, IndyError> and Option<T>.                                     *)
(***************************************************************************)
Ok(v) == <<"Ok", v>>
Err(e) == <<"Err", e>>
IsOk(r) == r[1] = "Ok"
IsErr(r) == r[1] = "Err"
Some(v) == <<"Some", v>>
None == <<"None", <<>>>>

(***************************************************************************)
(* serde_json.  A Value is a tagged pair; a Map<String, Value> is a        *)
(* function from its keys.  Text is a sequence of tokens: punctuation      *)
(* <<"p", c>>, and the scalars, which are written as themselves.           *)
(***************************************************************************)
LBrace == <<"p", "{">>
RBrace == <<"p", "}">>
LBracket == <<"p", "[">>
RBracket == <<"p", "]">>
Colon == <<"p", ":">>
Comma == <<"p", ",">>

JNull == <<"null", "">>
JNum(d) == <<"num", d>>
JString(s) == <<"str", s>>
JArray(elems) == <<"arr", elems>>
JObject(map) == <<"obj", map>>

\* Map::new()
MapNew == [k \in {} |-> JNull]

\* Map::insert: the value under an existing key is replaced
MapInsert(map, k, v) == [x \in DOMAIN map \cup {k} |-> IF x = k THEN v ELSE map[x]]

\* The field names the model uses, in the order a Map iterates them
\* (a BTreeMap: by key).
KeyOrder == <<"a", "msg", "seed", "verkey">>

MapKeys(map) == SelectSeq(KeyOrder, LAMBDA k : k \in DOMAIN map)

RECURSIVE to_string(_), MembersToString(_, _), ElemsToString(_)

\* Value::to_string: compact JSON text
to_string(v) ==
    CASE v[1] = "obj" -> <<LBrace>> \o MembersToString(v[2], MapKeys(v[2])) \o <<RBrace>>
      [] v[1] = "arr" -> <<LBracket>> \o ElemsToString(v[2]) \o <<RBracket>>
      [] OTHER -> <<v>>

MembersToString(map, ks) ==
    IF ks = <<>> THEN <<>>
    ELSE <<JString(Head(ks)), Colon>> \o to_string(map[Head(ks)])
         \o (IF Len(ks) > 1 THEN <<Comma>> ELSE <<>>)
         \o MembersToString(map, Tail(ks))

ElemsToString(elems) ==
    IF elems = <<>> THEN <<>>
    ELSE to_string(Head(elems))
         \o (IF Len(elems) > 1 THEN <<Comma>> ELSE <<>>)
         \o ElemsToString(Tail(elems))

ParseFail == [ok |-> FALSE, val |-> JNull, rest |-> <<>>]
ParseDone(v, rest) == [ok |-> TRUE, val |-> v, rest |-> rest]
From(t, i) == SubSeq(t, i, Len(t))

RECURSIVE ParseValue(_), ParseMembers(_, _), ParseElems(_, _)

ParseValue(t) ==
    IF t = <<>> THEN ParseFail
    ELSE IF Head(t) = LBrace THEN
        IF Len(t) >= 2 /\ t[2] = RBrace
        THEN ParseDone(JObject(MapNew), From(t, 3))
        ELSE ParseMembers(Tail(t), MapNew)
    ELSE IF Head(t) = LBracket THEN
        IF Len(t) >= 2 /\ t[2] = RBracket
        THEN ParseDone(JArray(<<>>), From(t, 3))
        ELSE ParseElems(Tail(t), <<>>)
    ELSE IF Head(t)[1] = "p" THEN ParseFail
    ELSE ParseDone(Head(t), Tail(t))

\* "key": value, then a comma and more members, or the closing brace;
\* of two members with one key the later one stays
ParseMembers(t, acc) ==
    IF Len(t) < 3 \/ t[1][1] # "str" \/ t[2] # Colon THEN ParseFail
    ELSE LET v == ParseValue(From(t, 3)) IN
         IF ~v.ok \/ v.rest = <<>> THEN ParseFail
         ELSE IF Head(v.rest) = RBrace
              THEN ParseDone(JObject(MapInsert(acc, t[1][2], v.val)), Tail(v.rest))
         ELSE IF Head(v.rest) = Comma
              THEN ParseMembers(Tail(v.rest), MapInsert(acc, t[1][2], v.val))
         ELSE ParseFail

ParseElems(t, acc) ==
    LET v == ParseValue(t) IN
    IF ~v.ok \/ v.rest = <<>> THEN ParseFail
    ELSE IF Head(v.rest) = RBracket
         THEN ParseDone(JArray(Append(acc, v.val)), Tail(v.rest))
    ELSE IF Head(v.rest) = Comma
         THEN ParseElems(Tail(v.rest), Append(acc, v.val))
    ELSE ParseFail

\* serde_json::from_str::<Value>: the whole text is one value, or an error
from_str(s) ==
    LET r == ParseValue(s) IN
    IF r.ok /\ r.rest = <<>> THEN Ok(r.val) ELSE Err("SerdeJson")


\* Value::as_object_mut: the map of an object, None for any other value
as_object_mut(v) == IF v[1] = "obj" THEN Some(v[2]) ELSE None

\* str::as_bytes, and str::from_utf8 back: a byte string that is the
\* encoding of a text is written as that text, tagged
as_bytes(s) == <<"utf8", s>>
from_utf8(b) == IF b[1] = "utf8" THEN Ok(b[2]) ELSE Err("EncodingError")

(***************************************************************************)
(* utils::crypto::base58 and utils::crypto::box_.  A string that is read   *)
(* character by character is the sequence of its characters.               *)
(***************************************************************************)
Base58Alphabet ==
    <<"1", "2", "3", "4", "5", "6", "7", "8", "9",
      "A", "B", "C", "D", "E", "F", "G", "H", "J", "K", "L", "M", "N",
      "P", "Q", "R", "S", "T", "U", "V", "W", "X", "Y", "Z",
      "a", "b", "c", "d", "e", "f", "g", "h", "i", "j", "k",
      "m", "n", "o", "p", "q", "r", "s", "t", "u", "v", "w", "x", "y", "z">>

Base58Digit(c) == (CHOOSE i \in 1..Len(Base58Alphabet) : Base58Alphabet[i] = c) - 1

RECURSIVE LeadingCount(_, _), DigitsValue(_, _, _), ValueDigits(_, _)

\* how many times x stands at the front of s
LeadingCount(s, x) ==
    IF s # <<>> /\ Head(s) = x THEN 1 + LeadingCount(Tail(s), x) ELSE 0

\* the number a big-endian digit string writes in the given base
DigitsValue(ds, base, acc) ==
    IF ds = <<>> THEN acc ELSE DigitsValue(Tail(ds), base, acc * base + Head(ds))

\* the big-endian digits of a number in the given base; none for 0
ValueDigits(v, base) ==
    IF v = 0 THEN <<>> ELSE Append(ValueDigits(v \div base, base), v % base)

Zeros(k) == [i \in 1..k |-> 0]

\* Base58::decode: leading '1's are zero bytes, the rest is a number
Base58_decode(s) ==
    IF \E i \in 1..Len(s) : \A j \in 1..Len(Base58Alphabet) : Base58Alphabet[j] # s[i]
    THEN Err("DecodeError")
    ELSE LET z == LeadingCount(s, "1")
             ds == [i \in 1..(Len(s) - z) |-> Base58Digit(s[z + i])]
         IN Ok(Zeros(z) \o ValueDigits(DigitsValue(ds, 58, 0), 256))

RECURSIVE Concat(_)
Concat(cs) == IF cs = <<>> THEN "" ELSE Head(cs) \o Concat(Tail(cs))

\* Base58::encode, as a String
Base58_encode(bytes) ==
    LET z == LeadingCount(bytes, 0)
        ds == ValueDigits(DigitsValue(From(bytes, z + 1), 256, 0), 58)
    IN Concat([i \in 1..z |-> "1"] \o [i \in 1..Len(ds) |-> Base58Alphabet[ds[i] + 1]])

\* The lengths of an ed25519 secret key and of its seed, scaled down from
\* 64 and 32 bytes so that a key is a number TLC can compute with.
SecretKeyBytes == 2
SeedBytes == 1

\* CryptoBox::ed25519_sk_to_seed: the seed is the first half of the key
ed25519_sk_to_seed(sk) ==
    IF Len(sk) # SecretKeyBytes THEN Err("DecodeError") ELSE Ok(SubSeq(sk, 1, SeedBytes))

(***************************************************************************)
(* The collaborators: the key lookup of the crypto commands and the        *)
(* wallet service.                                                         *)
(***************************************************************************)
\* CryptoCommandExecutor::__wallet_get_key
wallet_get_key(ks, wallet_handle, verkey) ==
    IF verkey \in DOMAIN ks[wallet_handle]
    THEN Ok(ks[wallet_handle][verkey])
    ELSE Err("KeyNotFound")

\* WalletService::get
wallet_get(w, wallet_handle, key) ==
    IF key \in DOMAIN w[wallet_handle] THEN Ok(w[wallet_handle][key]) ELSE Err("NotFound")

\* WalletService::set: the value under the key is replaced, or the write
\* fails and the wallet is as it was
wallet_set(w, wallet_handle, key, value, fails) ==
    IF fails THEN [res |-> Err("StorageError"), wallet |-> w]
    ELSE [res |-> Ok(<<>>),
          wallet |-> [w EXCEPT ![wallet_handle] =
                         [k \in DOMAIN @ \cup {key} |-> IF k = key THEN value ELSE @[k]]]]

(***************************************************************************)
(* indy_crypto::sss.  A share is written as its number, the threshold of   *)
(* its split and the polynomial it is a point of: the secret and the       *)
(* random coefficients drawn for the split.                                *)
(***************************************************************************)
Share(no, m, secret, rnd) == [no |-> no, threshold |-> m, secret |-> secret, rnd |-> rnd]

\* a Share as a JSON value, and a JSON value as a Share
ShareValue(sh) == <<"share", sh>>
IsShareValue(v) == v[1] = "share"

shard_secret(m, n, secret, sign_shares, rnd) ==
    IF m < 1 \/ n < 1 \/ m > n THEN Err("SplitFailure")
    ELSE Ok([i \in 1..n |-> Share(i, m, secret, rnd)])

get_shard_by_no(shards, shard_no) ==
    IF \E i \in 1..Len(shards) : shards[i].no = shard_no
    THEN Ok(shards[CHOOSE i \in 1..Len(shards) : shards[i].no = shard_no])
    ELSE Err("IndexOutOfRange")

recover_secret(shards, verify_signatures) ==
    IF /\ shards # <<>>
       /\ \A i \in 1..Len(shards) :
              /\ shards[i].threshold = shards[1].threshold
              /\ shards[i].secret = shards[1].secret
              /\ shards[i].rnd = shards[1].rnd
       /\ Cardinality({shards[j].no : j \in 1..Len(shards)}) >= shards[1].threshold
    THEN Ok(shards[1].secret)
    ELSE Err("RecoveryFailure")

\* serde_json::from_str::<Vec<Share>>
shares_from_str(s) ==
    LET v == from_str(s) IN
    IF /\ IsOk(v)
       /\ v[2][1] = "arr"
       /\ \A j \in 1..Len(v[2][2]) : IsShareValue(v[2][2][j])
    THEN Ok([i \in 1..Len(v[2][2]) |-> v[2][2][i][2]])
    ELSE Err("ParseError")

\* json!(shares).to_string()
shares_to_string(shares) == to_string(JArray([i \in 1..Len(shares) |-> ShareValue(shares[i])]))


(***************************************************************************)
(* SSSCommandExecutor.  A handler that panics gives no Result; that is     *)
(* written <<"Panic", where>>.                                             *)
(***************************************************************************)
Panic(where) == <<"Panic", where>>
IsPanic(r) == r[1] = "Panic"

\* Variant of _verkey_to_wallet_key that leaves the verkey out of the key.
verkey_to_wallet_key_NoVerkey(verkey) == SSS_WALLET_KEY_PREFIX \o "::"

\* _verkey_to_wallet_key
verkey_to_wallet_key(verkey) == SSS_WALLET_KEY_PREFIX \o "::" \o verkey

\* lines 88-94: the msg given as a Map; a text that is no JSON is an error,
\* a JSON value that is no object is unwrap() of None
MsgMap(msg) ==
    IF msg = None THEN Ok(MapNew)
    ELSE LET v == from_str(msg[2]) IN
         IF IsErr(v) THEN Err("MalformedInput")
         ELSE IF as_object_mut(v[2]) = None THEN Panic("unwrap")
         ELSE Ok(as_object_mut(v[2])[2])

\* Variant of lines 95-96 that takes the caller's object as the cover
\* itself instead of placing it under "msg".
NewCover_Merged(msg_map) == msg_map

\* lines 95-96: the cover, holding the msg
NewCover(msg_map) == MapInsert(MapNew, SSS_MSG_NAME_IN_SHARD, JObject(msg_map))

\* Variant of update_msg_with_secret_key that encodes the whole secret
\* key where the seed belongs.
update_msg_with_secret_key_WholeKey(ks, wallet_handle, cover, verkey) ==
    LET k == wallet_get_key(ks, wallet_handle, verkey) IN
    IF IsErr(k) THEN k
    ELSE LET sk == Base58_decode(k[2].signkey) IN
         IF IsErr(sk) THEN sk
         ELSE LET seed == ed25519_sk_to_seed(sk[2]) IN
              IF IsErr(seed) THEN seed
              ELSE Ok(MapInsert(MapInsert(cover, SSS_VERKEY_NAME_IN_SHARD, JString(verkey)),
                                SSS_SEED_NAME_IN_SHARD, JString(Base58_encode(sk[2]))))

\* update_msg_with_secret_key: the cover with the verkey and its seed
update_msg_with_secret_key(ks, wallet_handle, cover, verkey) ==
    LET k == wallet_get_key(ks, wallet_handle, verkey) IN
    IF IsErr(k) THEN k
    ELSE LET sk == Base58_decode(k[2].signkey) IN
         IF IsErr(sk) THEN sk
         ELSE LET seed == ed25519_sk_to_seed(sk[2]) IN
              IF IsErr(seed) THEN seed
              ELSE Ok(MapInsert(MapInsert(cover, SSS_VERKEY_NAME_IN_SHARD, JString(verkey)),
                                SSS_SEED_NAME_IN_SHARD, JString(Base58_encode(seed[2]))))

\* What a run of shard_msg_secret_and_store_shards did: its result, the
\* wallet after it, the text it handed to shard_secret (if it got there),
\* the value it handed to the wallet (if it got there), and how many times
\* it called shard_secret and WalletService::set.
Ran(res, w, cover, stored, split_calls, sets) ==
    [res |-> res, wallet |-> w, cover |-> cover, stored |-> stored,
     split_calls |-> split_calls, sets |-> sets]

\* Variant of line 101 that asks for a threshold one below the caller's.
ShardCover_ThresholdLess(m, n, updated_json, rnd) ==
    shard_secret(IF m > 1 THEN m - 1 ELSE m, n, as_bytes(updated_json), FALSE, rnd)

\* line 101: the cover's bytes, split with the checksum mode off
ShardCover(m, n, updated_json, rnd) ==
    shard_secret(m, n, as_bytes(updated_json), FALSE, rnd)

\* lines 88-103: up to the wallet key and the value to store under it
PrepareShards(ks, wallet_handle, m, n, msg, verkey, rnd) ==
    LET msg_map == MsgMap(msg) IN
    IF ~IsOk(msg_map) THEN [res |-> msg_map, cover |-> None, split_calls |-> 0]
    ELSE LET cover == update_msg_with_secret_key(ks, wallet_handle, NewCover(msg_map[2]), verkey) IN
         IF IsErr(cover) THEN [res |-> cover, cover |-> None, split_calls |-> 0]
         ELSE LET updated_json == to_string(JObject(cover[2]))
                  shares == ShardCover(m, n, updated_json, rnd)
              IN IF IsErr(shares)
                 THEN [res |-> shares, cover |-> Some(updated_json), split_calls |-> 1]
                 ELSE [res |-> Ok([wallet_key |-> verkey_to_wallet_key(verkey),
                                   shares_json |-> shares_to_string(shares[2])]),
                       cover |-> Some(updated_json), split_calls |-> 1]

\* Variant of lines 104-105 that leaves a collection already stored under
\* the key in place.
StoreShares_KeepFirst(w, wallet_handle, wallet_key, shares_json, verkey, fails) ==
    IF wallet_key \in DOMAIN w[wallet_handle] THEN [res |-> Ok(verkey), wallet |-> w]
    ELSE LET set == wallet_set(w, wallet_handle, wallet_key, shares_json, fails) IN
         IF IsErr(set.res) THEN [res |-> set.res, wallet |-> w]
         ELSE [res |-> Ok(verkey), wallet |-> set.wallet]

\* Variant of lines 104-105 that adds the shards to those already stored
\* under the key.
StoreShares_Merge(w, wallet_handle, wallet_key, shares_json, verkey, fails) ==
    LET old == IF wallet_key \in DOMAIN w[wallet_handle]
               THEN shares_from_str(w[wallet_handle][wallet_key])[2]
               ELSE <<>>
        set == wallet_set(w, wallet_handle, wallet_key,
                          shares_to_string(old \o shares_from_str(shares_json)[2]), fails)
    IN IF IsErr(set.res) THEN [res |-> set.res, wallet |-> w]
       ELSE [res |-> Ok(verkey), wallet |-> set.wallet]

\* Variant of lines 104-105 that drops the error of the write.
StoreShares_IgnoreError(w, wallet_handle, wallet_key, shares_json, verkey, fails) ==
    [res |-> Ok(verkey),
     wallet |-> wallet_set(w, wallet_handle, wallet_key, shares_json, fails).wallet]

\* lines 104-105: the write, and the verkey as the result
StoreShares(w, wallet_handle, wallet_key, shares_json, verkey, fails) ==
    LET set == wallet_set(w, wallet_handle, wallet_key, shares_json, fails) IN
    IF IsErr(set.res) THEN [res |-> set.res, wallet |-> w]
    ELSE [res |-> Ok(verkey), wallet |-> set.wallet]

shard_msg_secret_and_store_shards(w, ks, wallet_handle, m, n, msg, verkey, rnd, fails) ==
    LET p == PrepareShards(ks, wallet_handle, m, n, msg, verkey, rnd) IN
    IF ~IsOk(p.res) THEN Ran(p.res, w, p.cover, None, p.split_calls, 0)
    ELSE LET st == StoreShares(w, wallet_handle, p.res[2].wallet_key,
                               p.res[2].shares_json, verkey, fails)
         IN Ran(st.res, st.wallet, p.cover, Some(p.res[2].shares_json), p.split_calls, 1)

\* Get all shards of a verkey as a JSON array
get_shards_of_verkey(w, wallet_handle, verkey) ==
    wallet_get(w, wallet_handle, verkey_to_wallet_key(verkey))

\* Variant of get_shard_of_verkey that counts the shards from 0.
get_shard_of_verkey_ZeroBased(w, wallet_handle, verkey, shard_no) ==
    LET shards_json == wallet_get(w, wallet_handle, verkey_to_wallet_key(verkey)) IN
    IF IsErr(shards_json) THEN shards_json
    ELSE LET shards == shares_from_str(shards_json[2]) IN
         IF IsErr(shards) THEN shards
         ELSE LET shard == get_shard_by_no(shards[2], shard_no + 1) IN
              IF IsErr(shard) THEN shard
              ELSE Ok(to_string(ShareValue(shard[2])))

\* Get a specific shard of a verkey as a string
get_shard_of_verkey(w, wallet_handle, verkey, shard_no) ==
    LET shards_json == wallet_get(w, wallet_handle, verkey_to_wallet_key(verkey)) IN
    IF IsErr(shards_json) THEN shards_json
    ELSE LET shards == shares_from_str(shards_json[2]) IN
         IF IsErr(shards) THEN shards
         ELSE LET shard == get_shard_by_no(shards[2], shard_no) IN
              IF IsErr(shard) THEN shard
              ELSE Ok(to_string(ShareValue(shard[2])))

recover_secret_from_shards(shards_json) ==
    LET shards == shares_from_str(shards_json) IN
    IF IsErr(shards) THEN shards
    ELSE LET recovered_secret == recover_secret(shards[2], FALSE) IN
         IF IsErr(recovered_secret) THEN recovered_secret
         ELSE from_utf8(recovered_secret[2])


(***************************************************************************)
(* The inputs the commands are run with.                                   *)
(***************************************************************************)
Handles == {1, 2}
Verkeys == {"VkA", "VkB"}

\* a signing key record of the wallet
Key(verkey, signkey) == [verkey |-> verkey, signkey |-> signkey]

\* Wallet 1 holds the signing key of VkA, and for VkB one that is too
\* short; wallet 2 holds for VkA one that is no base58, and none for VkB.
KeyStore ==
    [h \in Handles |->
        IF h = 1
        THEN [v \in Verkeys |->
                 Key(v, IF v = "VkA" THEN <<"K", "z", "z">> ELSE <<"2", "g">>)]
        ELSE [v \in {"VkA"} |-> Key(v, <<"0", "O">>)]]

\* msg: absent; an object that names a verkey and a seed of its own; a
\* text that is no JSON; an array; a scalar
MsgObject ==
    Some(<<LBrace, JString("a"), Colon, JNum("1"), Comma,
           JString("seed"), Colon, JString("Evil"), Comma,
           JString("verkey"), Colon, JString("Evil"), RBrace>>)
MsgNotJson == Some(<<LBrace>>)
MsgArray == Some(<<LBracket, JNum("1"), RBracket>>)
MsgNull == Some(<<JNull>>)
Msgs == {None, MsgObject, MsgNotJson, MsgArray, MsgNull}

\* (m, n): every pair with 1 <= m <= n <= MaxN, and two outside the contract
ValidThresholds == UNION {{<<m, n>> : m \in 1..n} : n \in 1..MaxN}
Thresholds == ValidThresholds \cup {<<0, MaxN>>, <<MaxN + 1, MaxN>>}

\* the coefficients shard_secret draws
Rnd == {"r1", "r2"}

\* what happens inside the external calls of one run: the coefficients
\* drawn, and whether the wallet write fails
Envs == {[rnd |-> r, fails |-> FALSE] : r \in Rnd} \cup {[rnd |-> "r1", fails |-> TRUE]}

ShardNos == 0..(MaxN + 1)

NoArgs ==
    [wallet_handle |-> 0, m |-> 0, n |-> 0, msg |-> None, verkey |-> "",
     shard_no |-> 0, shards_json |-> <<>>, picked |-> {}]

\* the record of a command run: the command, its arguments, what the
\* callback was given (or the panic that kept it from being called), and
\* for a split what Ran tells of it and whether it replaced a collection
Command(name, args, res, cover, stored, split_calls, sets, replaced) ==
    [op |-> name, args |-> args, res |-> res, cover |-> cover, stored |-> stored,
     split_calls |-> split_calls, sets |-> sets, replaced |-> replaced]

Callers == {"c1", "c2"}

Init ==
    /\ wallet = [h \in Handles |-> MapNew]
    /\ keys = KeyStore
    /\ last = Command("none", NoArgs, Ok(<<>>), None, None, 0, 0, FALSE)
    /\ origin = [h \in Handles |-> [v \in Verkeys |-> None]]
    /\ pend = [c \in Callers |-> None]

\* What is remembered of the split whose write stands for an owner: its
\* arguments and the value it handed to the wallet.
Written(m, n, msg, shares_json) ==
    Some([m |-> m, n |-> n, msg |-> msg, stored |-> shares_json])

\* whether a successful run that handed `stored` to the wallet for
\* (h, verkey) found another collection there
Replaced(w, h, verkey, res, stored) ==
    /\ IsOk(res)
    /\ verkey_to_wallet_key(verkey) \in DOMAIN w[h]
    /\ w[h][verkey_to_wallet_key(verkey)] # stored[2]

SplitArgs(h, m, n, msg, verkey) ==
    [NoArgs EXCEPT !.wallet_handle = h, !.m = m, !.n = n, !.msg = msg, !.verkey = verkey]

\* execute(ShardMsgWithSecretAndStoreShards(wallet_handle, m, n, msg, verkey, cb))
ShardMsgWithSecretAndStoreShards(h, m, n, msg, verkey, env) ==
    \E r \in {shard_msg_secret_and_store_shards(wallet, keys, h, m, n, msg, verkey,
                                                env.rnd, env.fails)} :
       /\ wallet' = r.wallet
       /\ last' = Command("split", SplitArgs(h, m, n, msg, verkey), r.res, r.cover,
                          r.stored, r.split_calls, r.sets,
                          Replaced(wallet, h, verkey, r.res, r.stored))
       /\ origin' = IF IsOk(r.res)
                    THEN [origin EXCEPT ![h][verkey] = Written(m, n, msg, r.stored[2])]
                    ELSE origin
       /\ UNCHANGED <<keys, pend>>

\* execute(GetShardsOfVerkey(wallet_handle, verkey, cb))
GetShardsOfVerkey(h, verkey) ==
    /\ last' = Command("get_shards", [NoArgs EXCEPT !.wallet_handle = h, !.verkey = verkey],
                       get_shards_of_verkey(wallet, h, verkey), None, None, 0, 0, FALSE)
    /\ UNCHANGED <<wallet, keys, origin, pend>>

\* execute(GetShardOfVerkey(wallet_handle, verkey, shard_no, cb))
GetShardOfVerkey(h, verkey, shard_no) ==
    /\ last' = Command("get_shard",
                       [NoArgs EXCEPT !.wallet_handle = h, !.verkey = verkey,
                                      !.shard_no = shard_no],
                       get_shard_of_verkey(wallet, h, verkey, shard_no), None, None, 0, 0, FALSE)
    /\ UNCHANGED <<wallet, keys, origin, pend>>

\* The shards a caller picks out of a collection it was given: those at
\* the positions in `picked`, as a JSON array again.
PickShards(shards_json, picked) ==
    LET all == from_str(shards_json)[2][2]
        RECURSIVE Pick(_)
        Pick(i) == IF i > Len(all) THEN <<>>
                   ELSE (IF i \in picked THEN <<all[i]>> ELSE <<>>) \o Pick(i + 1)
    IN to_string(JArray(Pick(1)))

\* execute(RecoverSecretFromShards(shards_json, cb)), with some of the
\* shards that get_shards_of_verkey gives for (h, verkey)
RecoverSecretFromShards(h, verkey, picked) ==
    \E got \in {get_shards_of_verkey(wallet, h, verkey)} :
       /\ IsOk(got)
       /\ picked \subseteq 1..Len(from_str(got[2])[2][2])
       /\ \E shards_json \in {PickShards(got[2], picked)} :
              last' = Command("recover",
                              [NoArgs EXCEPT !.wallet_handle = h, !.verkey = verkey,
                                             !.shards_json = shards_json, !.picked = picked],
                              recover_secret_from_shards(shards_json), None, None, 0, 0, FALSE)
       /\ UNCHANGED <<wallet, keys, origin, pend>>

\* execute(RecoverSecretFromShards(shards_json, cb)), with a text that is
\* no array of shards
MalformedShards == {<<LBracket>>, <<LBrace, RBrace>>, <<LBracket, JNum("1"), RBracket>>}

RecoverFromMalformed(shards_json) ==
    /\ last' = Command("recover", [NoArgs EXCEPT !.shards_json = shards_json],
                       recover_secret_from_shards(shards_json), None, None, 0, 0, FALSE)
    /\ UNCHANGED <<wallet, keys, origin, pend>>

Next ==
    \/ \E h \in Handles, t \in Thresholds, msg \in Msgs, verkey \in Verkeys, env \in Envs :
           ShardMsgWithSecretAndStoreShards(h, t[1], t[2], msg, verkey, env)
    \/ \E h \in Handles, verkey \in Verkeys : GetShardsOfVerkey(h, verkey)
    \/ \E h \in Handles, verkey \in Verkeys, shard_no \in ShardNos :
           GetShardOfVerkey(h, verkey, shard_no)
    \/ \E h \in Handles, verkey \in Verkeys, picked \in SUBSET (1..MaxN) :
           RecoverSecretFromShards(h, verkey, picked)
    \/ \E shards_json \in MalformedShards : RecoverFromMalformed(shards_json)

Spec == Init /\ [][Next]_vars


(***************************************************************************)
(* Splits in progress at once.  A split reads the signing key and computes *)
(* the shards (BeginSplit), and then issues its one wallet write           *)
(* (FinishSplit); between the two, other callers' splits may do either.    *)
(***************************************************************************)
\* Wallet 1 holds the signing keys of VkA and of VkB; wallet 2 holds none.
KeyStoreConc ==
    [h \in Handles |->
        IF h = 1
        THEN [v \in Verkeys |->
                 Key(v, IF v = "VkA" THEN <<"K", "z", "z">> ELSE <<"1", "2", "g">>)]
        ELSE MapNew]

ConcThresholds == {<<1, MaxN>>, <<MaxN, MaxN>>}

InitConc ==
    /\ wallet = [h \in Handles |-> MapNew]
    /\ keys = KeyStoreConc
    /\ last = Command("none", NoArgs, Ok(<<>>), None, None, 0, 0, FALSE)
    /\ origin = [h \in Handles |-> [v \in Verkeys |-> None]]
    /\ pend = [c \in Callers |-> None]

\* lines 88-103 of a split by caller c
BeginSplit(c, h, m, n, msg, verkey, rnd) ==
    /\ pend[c] = None
    /\ \E p \in {PrepareShards(keys, h, m, n, msg, verkey, rnd)} :
          IF IsOk(p.res)
          THEN /\ pend' = [pend EXCEPT ![c] =
                               Some([args |-> SplitArgs(h, m, n, msg, verkey),
                                     wallet_key |-> p.res[2].wallet_key,
                                     shares_json |-> p.res[2].shares_json,
                                     cover |-> p.cover])]
               /\ UNCHANGED <<wallet, keys, last, origin>>
          ELSE /\ last' = Command("split", SplitArgs(h, m, n, msg, verkey), p.res, p.cover,
                                  None, p.split_calls, 0, FALSE)
               /\ UNCHANGED <<wallet, keys, origin, pend>>

\* lines 104-105 of the split by caller c, and its callback
FinishSplit(c, fails) ==
    /\ pend[c] # None
    /\ \E p \in {pend[c][2]} :
       \E st \in {StoreShares(wallet, p.args.wallet_handle, p.wallet_key, p.shares_json,
                              p.args.verkey, fails)} :
          /\ wallet' = st.wallet
          /\ last' = Command("split", p.args, st.res, p.cover, Some(p.shares_json), 1, 1,
                             Replaced(wallet, p.args.wallet_handle, p.args.verkey, st.res,
                                      Some(p.shares_json)))
          /\ origin' = IF IsOk(st.res)
                       THEN [origin EXCEPT ![p.args.wallet_handle][p.args.verkey] =
                                Written(p.args.m, p.args.n, p.args.msg, p.shares_json)]
                       ELSE origin
          /\ pend' = [pend EXCEPT ![c] = None]
          /\ UNCHANGED keys

NextConc ==
    \/ \E c \in Callers, h \in Handles, t \in ConcThresholds, verkey \in Verkeys,
          rnd \in Rnd :
           BeginSplit(c, h, t[1], t[2], None, verkey, rnd)
    \/ \E c \in Callers, fails \in BOOLEAN : FinishSplit(c, fails)

SpecConc == InitConc /\ [][NextConc]_vars

(***************************************************************************)
(* What the properties below are stated with.                              *)
(***************************************************************************)
\* the seed of the signing key that wallet h holds for the verkey, in base58
SeedOf(h, verkey) ==
    Base58_encode(ed25519_sk_to_seed(Base58_decode(keys[h][verkey].signkey)[2])[2])

\* the JSON object a msg argument stands for
MsgValue(msg) ==
    CASE msg = None -> JObject(MapNew)
      [] msg = MsgObject ->
             JObject([a |-> JNum("1"), seed |-> JString("Evil"), verkey |-> JString("Evil")])
      [] OTHER -> JNull

\* the covering payload of an owner and a msg
Covering(h, verkey, msg) ==
    JObject([msg |-> MsgValue(msg), verkey |-> JString(verkey),
             seed |-> JString(SeedOf(h, verkey))])

\* the last command was `name`, run for wallet h and the verkey
LastRan(name, h, verkey) ==
    /\ last.op = name
    /\ last.args.wallet_handle = h
    /\ last.args.verkey = verkey

\* the split whose write stands for (h, verkey)
Standing(h, verkey) == origin[h][verkey][2]

C4_ThresholdEnforced ==
    \A h \in Handles, v \in Verkeys :
        (/\ LastRan("recover", h, v)
         /\ origin[h][v] # None
         /\ Cardinality(last.args.picked) < origin[h][v][2].m)
        => last.res = Err("RecoveryFailure")

C4_Witness ==
    /\ LastRan("recover", 1, "VkA")
    /\ origin[1]["VkA"] # None
    /\ Standing(1, "VkA").m = 2
    /\ Cardinality(last.args.picked) = 1
    /\ last.res = Err("RecoveryFailure")

C6_Overwrite ==
    \A h \in Handles, v \in Verkeys :
        origin[h][v] # None
        => get_shards_of_verkey(wallet, h, v) = Ok(Standing(h, v).stored)

\* a second split for VkA has replaced the collection of an earlier one
C6_Witness ==
    /\ LastRan("split", 1, "VkA")
    /\ IsOk(last.res)
    /\ last.replaced
    /\ origin[1]["VkA"] # None
    /\ get_shards_of_verkey(wallet, 1, "VkA") = Ok(last.stored[2])

\* C7: a split that succeeds has called WalletService::set once, and the
\* wallets differ from before in the one entry it wrote; a split that fails
\* leaves the wallets as they were, and has not called set unless the
\* failure is that of the write itself.
C7_NoPartialState ==
    [][last'.op = "split"
       => IF IsOk(last'.res)
          THEN /\ last'.sets = 1
               /\ \A h \in Handles :
                      LET key == verkey_to_wallet_key(last'.args.verkey) IN
                      IF h = last'.args.wallet_handle
                      THEN /\ DOMAIN wallet'[h] = DOMAIN wallet[h] \cup {key}
                           /\ wallet'[h][key] = last'.stored[2]
                           /\ \A k \in DOMAIN wallet[h] \ {key} : wallet'[h][k] = wallet[h][k]
                      ELSE wallet'[h] = wallet[h]
          ELSE /\ wallet' = wallet
               /\ last'.sets = 0 \/ (last'.sets = 1 /\ last'.res = Err("StorageError"))]_vars

C7_Witness ==
    /\ LastRan("split", 1, "VkA")
    /\ last.res = Err("StorageError")
    /\ origin[1]["VkA"] # None

\* C9: every text that a split hands to shard_secret is the object with
\* exactly the fields msg, verkey and seed, where verkey is the verkey of
\* the call, seed the seed of its key, and msg the caller's object, whatever
\* fields that object has.
C9_CoveringPayload ==
    (last.op = "split" /\ last.cover # None)
    => from_str(last.cover[2])
         = Ok(Covering(last.args.wallet_handle, last.args.verkey, last.args.msg))

C9_Witness ==
    /\ LastRan("split", 1, "VkA")
    /\ last.args.msg = MsgObject
    /\ last.cover # None
    /\ IsOk(last.res)

\* C10: for every wallet and verkey for which no split has succeeded,
\* get_shards_of_verkey and get_shard_of_verkey fail with NotFound; where
\* one has, get_shards_of_verkey gives the stored value as it is.
C10_NotFound ==
    \A h \in Handles, v \in Verkeys :
        IF origin[h][v] = None
        THEN /\ get_shards_of_verkey(wallet, h, v) = Err("NotFound")
             /\ \A i \in ShardNos : get_shard_of_verkey(wallet, h, v, i) = Err("NotFound")
        ELSE /\ verkey_to_wallet_key(v) \in DOMAIN wallet[h]
             /\ get_shards_of_verkey(wallet, h, v) = Ok(wallet[h][verkey_to_wallet_key(v)])

C10_Witness ==
    /\ LastRan("get_shard", 1, "VkB")
    /\ last.res = Err("NotFound")
    /\ origin[1]["VkA"] # None
    /\ origin[1]["VkB"] = None

\* C2: a split whose (m, n) is outside 1 <= m <= n fails with
\* InvalidThreshold, without shard_secret being called and without a write.
C2_ThresholdValidated ==
    (last.op = "split" /\ ~(1 <= last.args.m /\ last.args.m <= last.args.n))
    => /\ last.res = Err("InvalidThreshold")
       /\ last.split_calls = 0
       /\ last.sets = 0

\* C3: a split whose msg is no JSON, or is JSON but no object, gives its
\* caller the error MalformedInput, and writes nothing.
C3_MalformedMsgReported ==
    (last.op = "split" /\ last.args.msg \in {MsgNotJson, MsgArray, MsgNull})
    => /\ last.res = Err("MalformedInput")
       /\ last.sets = 0


\* a stored value is one whole output of shard_secret for the verkey: shards
\* numbered 1..n in order, all of one threshold, one secret and one draw,
\* the secret being a covering payload of that verkey
WholeCollection(h, verkey, shares_json) ==
    LET shards == shares_from_str(shares_json) IN
    /\ IsOk(shards)
    /\ Len(shards[2]) >= 1
    /\ \A i \in 1..Len(shards[2]) :
           /\ shards[2][i].no = i
           /\ shards[2][i].threshold = shards[2][1].threshold
           /\ shards[2][i].rnd = shards[2][1].rnd
           /\ shards[2][i].secret = as_bytes(to_string(Covering(h, verkey, None)))

\* C8: with splits in progress at once, whatever is stored for an owner is
\* one whole collection; and a step that changes the wallets is the write
\* of one split: after it, what is stored for that split's owner is the
\* collection that split computed, and what is stored for every other owner
\* and wallet is as before.
C8_ConcurrentSplits ==
    /\ [](\A h \in Handles, v \in Verkeys :
              IsOk(get_shards_of_verkey(wallet, h, v))
              => WholeCollection(h, v, get_shards_of_verkey(wallet, h, v)[2]))
    /\ [][wallet' # wallet
          => \E c \in Callers :
                 /\ pend[c] # None
                 /\ pend'[c] = None
                 /\ \A h \in Handles, v \in Verkeys :
                        IF h = pend[c][2].args.wallet_handle /\ v = pend[c][2].args.verkey
                        THEN get_shards_of_verkey(wallet', h, v) = Ok(pend[c][2].shares_json)
                        ELSE get_shards_of_verkey(wallet', h, v)
                               = get_shards_of_verkey(wallet, h, v)]_vars

\* two splits for VkA overlapped: one has written over an earlier
\* collection while the other is still to write, and VkB has a collection
C8_Witness ==
    \E c \in Callers :
        /\ pend[c] # None
        /\ pend[c][2].args.wallet_handle = 1
        /\ pend[c][2].args.verkey = "VkA"
        /\ LastRan("split", 1, "VkA")
        /\ IsOk(last.res)
        /\ pend[c][2].shares_json # last.stored[2]
        /\ last.replaced
        /\ origin[1]["VkB"] # None
        /\ get_shards_of_verkey(wallet, 1, "VkA") = Ok(last.stored[2])

====
